---- MODULE Spec2Model ----
(***************************************************************************)
(* Model of governance_auditor.js: buildSelectorIndex, RULES, analyzeCall  *)
(* and main.  JavaScript strings are sequences of one-character strings,   *)
(* so that slice, join, toLowerCase and the regular expressions of RULES   *)
(* are computed character by character.                                    *)
(***************************************************************************)
EXTENDS Integers, Sequences, FiniteSets, TLC

VARIABLES
    hashSupported,  \* does crypto.createHash accept 'keccak256' in this build
    abiDoc,         \* content of the --abi file
    callsDoc,       \* content of the --calls file
    pc,             \* position of main
    abiJson,        \* main: abiJson
    selectorIndex,  \* main: selectorIndex
    callsJson,      \* main: callsJson
    results,        \* main: results
    pos,            \* position of the for-of loop of main over callsJson
    err,            \* the call that threw, "" while nothing threw
    output          \* what console.log has printed so far

vars == <<hashSupported, abiDoc, callsDoc, pc, abiJson, selectorIndex,
          callsJson, results, pos, err, output>>

----------------------------------------------------------------------------
(* JavaScript values that JSON.parse can produce for a scalar field.       *)

JSUndefined == [t |-> "undefined", n |-> 0, s |-> <<>>]
JSNull == [t |-> "null", n |-> 0, s |-> <<>>]
JSNum(n) == [t |-> "number", n |-> n, s |-> <<>>]
JSStr(s) == [t |-> "string", n |-> 0, s |-> s]
JSBool(b) == [t |-> "boolean", n |-> IF b THEN 1 ELSE 0, s |-> <<>>]

(* Truthiness, as used by `||` and `!`.                                    *)
Truthy(v) ==
    CASE v.t = "undefined" -> FALSE
      [] v.t = "null" -> FALSE
      [] v.t = "number" -> v.n # 0
      [] v.t = "string" -> v.s # <<>>
      [] v.t = "boolean" -> v.n = 1

----------------------------------------------------------------------------
(* Characters.                                                             *)

LowerCase == <<"a","b","c","d","e","f","g","h","i","j","k","l","m",
               "n","o","p","q","r","s","t","u","v","w","x","y","z">>
UpperCase == <<"A","B","C","D","E","F","G","H","I","J","K","L","M",
               "N","O","P","Q","R","S","T","U","V","W","X","Y","Z">>
Digits == <<"0","1","2","3","4","5","6","7","8","9">>
HexDigits == Digits \o <<"a","b","c","d","e","f">>
LineTerminators == {"\n", "\r"}
WhiteSpace == {" ", "\t"} \cup LineTerminators

IndexIn(seq, c) == CHOOSE i \in 1..Len(seq) : seq[i] = c
Occurs(seq, c) == \E i \in 1..Len(seq) : seq[i] = c

ToLowerChar(c) == IF Occurs(UpperCase, c) THEN LowerCase[IndexIn(UpperCase, c)] ELSE c

(* String.prototype.toLowerCase                                            *)
toLowerCase(s) == [i \in 1..Len(s) |-> ToLowerChar(s[i])]

(* String.prototype.slice(0, n)                                            *)
slice0(s, n) == SubSeq(s, 1, IF Len(s) < n THEN Len(s) ELSE n)

(* Array.prototype.join(','): undefined and null elements give ''.         *)
RECURSIVE join(_)
join(a) ==
    IF a = <<>> THEN <<>>
    ELSE LET h == IF Head(a).t = "string" THEN Head(a).s ELSE <<>>
         IN IF Len(a) = 1 THEN h ELSE h \o <<",">> \o join(Tail(a))

(* `${x}` for a string or undefined x.                                     *)
TemplateString(v) ==
    IF v.t = "string" THEN v.s ELSE <<"u","n","d","e","f","i","n","e","d">>

----------------------------------------------------------------------------
(* Selector derivation, lines 24-25.                                       *)

CharCode(c) ==
    LET table == LowerCase \o UpperCase \o Digits \o <<"(", ")", ",", "_", "\n">>
    IN IF Occurs(table, c) THEN IndexIn(table, c) ELSE 0

RECURSIVE CodeSum(_, _)
CodeSum(s, k) == IF k > Len(s) THEN 0 ELSE k * CharCode(s[k]) + CodeSum(s, k + 1)

(* crypto.createHash('keccak256').update(sig).digest('hex'): a fixed       *)
(* function from the signature to 64 lowercase hex digits.  Keccak-256 is  *)
(* not computed; the stand-in is deterministic, depends on every character *)
(* of the signature and is not injective, so that two signatures can       *)
(* derive one selector.                                                    *)
DigestOf(h) == [i \in 1..64 |-> HexDigits[(((h + 1) * i) % 16) + 1]]

keccak256Hex(sig) == DigestOf(CodeSum(sig, 1) % 5)

Signature(f) ==
    LET types == IF f.inputs.kind = "array"
                 THEN [i \in 1..Len(f.inputs.items) |-> f.inputs.items[i].type]
                 ELSE <<>>
    IN TemplateString(f.name) \o <<"(">> \o join(types) \o <<")">>

SelectorOf(sig) == <<"0", "x">> \o slice0(keccak256Hex(sig), 8)

----------------------------------------------------------------------------
(* buildSelectorIndex, lines 19-29.  An ABI entry f is                     *)
(*   [null, type, name, inputs, stateMutability]                           *)
(* where null says that the entry is the JSON value null, and inputs is    *)
(*   [kind |-> "undefined" | "array" | "object", items |-> parameters],    *)
(* a parameter being [null, type].                                         *)

Thrown == [threw |-> TRUE, idx |-> <<>>]

(* (f.inputs||[]).map(i=>i.type) throws when inputs is a truthy non-array  *)
(* or when one of its elements is null.                                    *)
InputsThrow(inputs) ==
    \/ inputs.kind = "object"
    \/ /\ inputs.kind = "array"
       /\ \E i \in 1..Len(inputs.items) : inputs.items[i].null

(* line 26: the descriptor stored under the selector                       *)
Descriptor(f) ==
    [name |-> f.name,
     inputs |-> IF f.inputs.kind = "array" THEN f.inputs.items ELSE <<>>,
     stateMutability |-> IF Truthy(f.stateMutability) THEN f.stateMutability
                         ELSE JSStr(<<"n","o","n","p","a","y","a","b","l","e">>)]

(* variant of Put: an existing key keeps its descriptor (first write wins) *)
PutIfAbsent(idx, sel, d) ==
    [k \in (DOMAIN idx) \cup {sel} |-> IF k \in DOMAIN idx THEN idx[k] ELSE d]

(* idx[sel] = d                                                            *)
Put(idx, sel, d) ==
    [k \in (DOMAIN idx) \cup {sel} |-> IF k = sel THEN d ELSE idx[k]]

FunctionType == JSStr(<<"f","u","n","c","t","i","o","n">>)

IsFunctionEntry(f) == f.type = FunctionType

(* lines 22-27: the loop over the entries from entry k on.  It throws on a *)
(* null entry (f.type), on inputs that cannot be mapped, and on the first  *)
(* function entry when crypto.createHash rejects 'keccak256' (the digest   *)
(* is not in every OpenSSL that Node is built with).                       *)
RECURSIVE BuildFrom(_, _, _, _)
BuildFrom(abi, k, idx, supported) ==
    IF k > Len(abi) THEN [threw |-> FALSE, idx |-> idx]
    ELSE LET f == abi[k] IN
         IF f.null THEN Thrown
         ELSE IF ~IsFunctionEntry(f) THEN BuildFrom(abi, k + 1, idx, supported)
         ELSE IF InputsThrow(f.inputs) THEN Thrown
         ELSE IF ~supported THEN Thrown
         ELSE BuildFrom(abi, k + 1,
                        Put(idx, SelectorOf(Signature(f)), Descriptor(f)),
                        supported)

EmptyObject == [k \in {} |-> JSUndefined]

buildSelectorIndex(abi, supported) == BuildFrom(abi, 1, EmptyObject, supported)

----------------------------------------------------------------------------
(* RULES, lines 32-38.                                                     *)

(* The literal lit matches s at position i; with the i flag both sides are *)
(* compared up to case.                                                    *)
MatchAt(s, i, lit) ==
    /\ i >= 1
    /\ i + Len(lit) - 1 <= Len(s)
    /\ \A k \in 1..Len(lit) : ToLowerChar(s[i + k - 1]) = ToLowerChar(lit[k])

(* /lit/i.test(s)                                                          *)
TestLiteral(s, lit) == \E i \in 1..Len(s) : MatchAt(s, i, lit)

(* /(a1|a2|..).*(b1|b2|..)/i.test(s): one of the first alternatives, then  *)
(* any run of characters other than line terminators, then one of the      *)
(* second alternatives.                                                    *)
TestThenDotStar(s, firsts, seconds) ==
    \E i \in 1..Len(s), a \in firsts :
        /\ MatchAt(s, i, a)
        /\ \E j \in (i + Len(a))..Len(s), b \in seconds :
               /\ MatchAt(s, j, b)
               /\ \A k \in (i + Len(a))..(j - 1) : s[k] \notin LineTerminators

kwDelegatecall == <<"d","e","l","e","g","a","t","e","c","a","l","l">>
kwUpgrade == <<"u","p","g","r","a","d","e">>
kwImplementation == <<"i","m","p","l","e","m","e","n","t","a","t","i","o","n">>
kwProxy == <<"p","r","o","x","y">>
kwGrant == <<"g","r","a","n","t">>
kwRevoke == <<"r","e","v","o","k","e">>
kwRole == <<"r","o","l","e">>
kwPause == <<"p","a","u","s","e">>
kwUnpause == <<"u","n","p","a","u","s","e">>
kwMint == <<"m","i","n","t">>

RegexDelegatecall(s) == TestLiteral(s, kwDelegatecall)
(* variant of RegexUpgradeProxy: the alternative "implementation" is lost *)
RegexUpgradeThenProxy(s) == TestThenDotStar(s, {kwUpgrade}, {kwProxy})
RegexUpgradeProxy(s) == TestThenDotStar(s, {kwUpgrade}, {kwImplementation, kwProxy})
RegexRoleAdmin(s) == TestThenDotStar(s, {kwGrant, kwRevoke}, {kwRole})
RegexPause(s) == TestLiteral(s, kwPause) \/ TestLiteral(s, kwUnpause)
RegexMint(s) == TestLiteral(s, kwMint)

RULES ==
    << [id |-> "delegatecall", weight |-> 40, desc |-> "Potential delegatecall use"],
       [id |-> "upgrade-proxy", weight |-> 25, desc |-> "Proxy upgrade"],
       [id |-> "role-admin", weight |-> 15, desc |-> "Role change"],
       [id |-> "pause", weight |-> 10, desc |-> "Pausing contract"],
       [id |-> "mint", weight |-> 20, desc |-> "Token minting"] >>

(* rule.regex.test(name)                                                   *)
RuleTest(rule, s) ==
    CASE rule.id = "delegatecall" -> RegexDelegatecall(s)
      [] rule.id = "upgrade-proxy" -> RegexUpgradeProxy(s)
      [] rule.id = "role-admin" -> RegexRoleAdmin(s)
      [] rule.id = "pause" -> RegexPause(s)
      [] rule.id = "mint" -> RegexMint(s)

----------------------------------------------------------------------------
(* analyzeCall, lines 40-57.  A call is [to, data, value], data a string.  *)

(* Members that a plain object {} inherits from Object.prototype and whose *)
(* names have at most 10 characters, the longest selector data.slice(0,10) *)
(* can give.  toString and valueOf are functions (their name property is   *)
(* the function's name), __proto__ is the prototype object itself.         *)
ObjectPrototype ==
    [k \in { <<"t","o","S","t","r","i","n","g">>,
             <<"v","a","l","u","e","O","f">>,
             <<"_","_","p","r","o","t","o","_","_">> } |->
        [name |-> IF k[1] = "_" THEN JSUndefined ELSE JSStr(k),
         inputs |-> <<>>,
         stateMutability |-> JSUndefined]]

NoMeta == [name |-> JSUndefined, inputs |-> <<>>, stateMutability |-> JSUndefined]

(* line 43: selectorIndex[sel] on an index created as {} (line 21)         *)
Lookup(idx, sel) ==
    IF sel \in DOMAIN idx THEN [found |-> TRUE, meta |-> idx[sel]]
    ELSE IF sel \in DOMAIN ObjectPrototype
         THEN [found |-> TRUE, meta |-> ObjectPrototype[sel]]
         ELSE [found |-> FALSE, meta |-> NoMeta]

DigitValue(c) == IndexIn(Digits, c) - 1

RECURSIVE Trim(_)
Trim(s) ==
    IF s = <<>> THEN s
    ELSE IF Head(s) \in WhiteSpace THEN Trim(Tail(s))
    ELSE IF s[Len(s)] \in WhiteSpace THEN Trim(SubSeq(s, 1, Len(s) - 1))
    ELSE s

RECURSIVE DecimalValue(_)
DecimalValue(s) ==
    IF s = <<>> THEN 0 ELSE 10 * DecimalValue(SubSeq(s, 1, Len(s) - 1)) + DigitValue(s[Len(s)])

NaN == [nan |-> TRUE, n |-> 0]
Finite(n) == [nan |-> FALSE, n |-> n]

(* Number(string) for strings of digits with an optional sign; any other   *)
(* non-blank string of the model is NaN.                                   *)
StringToNumber(str) ==
    LET s == Trim(str)
        signed == s # <<>> /\ s[1] \in {"+", "-"}
        body == IF signed THEN Tail(s) ELSE s
    IN IF s = <<>> THEN Finite(0)
       ELSE IF body = <<>> \/ \E i \in 1..Len(body) : ~Occurs(Digits, body[i]) THEN NaN
       ELSE Finite(IF s[1] = "-" THEN 0 - DecimalValue(body) ELSE DecimalValue(body))

(* Number(v)                                                               *)
ToNumber(v) ==
    CASE v.t = "undefined" -> NaN
      [] v.t = "null" -> Finite(0)
      [] v.t = "number" -> Finite(v.n)
      [] v.t = "boolean" -> Finite(v.n)
      [] v.t = "string" -> StringToNumber(v.s)

(* variant of ValueAttached: any truthy value counts as attached           *)
ValueAttachedIfTruthy(call) == Truthy(call.value)

(* line 55: Number(call.value || 0) > 0                                    *)
ValueAttached(call) ==
    LET x == ToNumber(IF Truthy(call.value) THEN call.value ELSE JSNum(0))
    IN ~x.nan /\ x.n > 0

(* variant of ApplyRules: the loop stops at the first matching rule        *)
RECURSIVE ApplyRulesFirstMatch(_, _, _)
ApplyRulesFirstMatch(name, k, res) ==
    IF k > Len(RULES) THEN res
    ELSE IF RuleTest(RULES[k], name)
         THEN [res EXCEPT !.risk = @ + RULES[k].weight,
                          !.reasons = Append(@, RULES[k].desc)]
         ELSE ApplyRulesFirstMatch(name, k + 1, res)

(* lines 49-51: the loop over RULES from rule k on, applied to res         *)
RECURSIVE ApplyRules(_, _, _)
ApplyRules(name, k, res) ==
    IF k > Len(RULES) THEN res
    ELSE ApplyRules(name, k + 1,
            IF RuleTest(RULES[k], name)
            THEN [res EXCEPT !.risk = @ + RULES[k].weight,
                             !.reasons = Append(@, RULES[k].desc)]
            ELSE res)

IsPayable(meta) == meta.stateMutability = JSStr(<<"p","a","y","a","b","l","e">>)

(* lines 52: the payability check                                          *)
ApplyPayable(meta, res) ==
    IF IsPayable(meta)
    THEN [res EXCEPT !.risk = @ + 5, !.reasons = Append(@, "Payable call")]
    ELSE res

(* line 55: the value check                                                *)
ApplyValue(call, res) ==
    IF ValueAttached(call)
    THEN [res EXCEPT !.risk = @ + 5, !.reasons = Append(@, "ETH value attached")]
    ELSE res

NoResult == [risk |-> 0, reasons |-> <<>>, selector |-> <<>>]

(* analyzeCall: threw says that meta.name.toLowerCase() raised a TypeError *)
analyzeCall(idx, call) ==
    LET res == [risk |-> 0, reasons |-> <<>>, selector |-> slice0(call.data, 10)]
        look == Lookup(idx, res.selector)
    IN IF ~look.found
       THEN [threw |-> FALSE,
             res |-> ApplyValue(call,
                        [res EXCEPT !.risk = @ + 10,
                                    !.reasons = Append(@, "Unknown selector (not in ABI)")])]
       ELSE IF look.meta.name.t # "string"
       THEN [threw |-> TRUE, res |-> NoResult]
       ELSE [threw |-> FALSE,
             res |-> ApplyValue(call,
                        ApplyPayable(look.meta,
                            ApplyRules(toLowerCase(look.meta.name.s), 1, res)))]

----------------------------------------------------------------------------
(* main, lines 59-76.  A document is [kind, items]: kind "unparsable" when *)
(* the file is missing or is not JSON, "object" when it parses to a value  *)
(* that is not iterable, "array" when it parses to the array items.        *)

NoDoc == [kind |-> "none", items |-> <<>>]

RECURSIVE totalRisk(_)
totalRisk(rs) == IF rs = <<>> THEN 0 ELSE Head(rs).risk + totalRisk(Tail(rs))

RECURSIVE DecimalString(_)
DecimalString(k) ==
    IF k < 10 THEN <<Digits[k + 1]>>
    ELSE DecimalString(k \div 10) \o <<Digits[(k % 10) + 1]>>

(* variant of toFixed2: the quotient is truncated, not rounded             *)
toFixed2Truncated(total, count) ==
    LET h == (100 * total) \div count
    IN DecimalString(h \div 100) \o <<".">>
         \o <<Digits[((h \div 10) % 10) + 1], Digits[(h % 10) + 1]>>

(* (total / count).toFixed(2) for total >= 0, count > 0: the quotient      *)
(* rounded to the nearest hundredth.  A quotient of two small integers is  *)
(* within 1e-15 of its double, and a double that lies exactly halfway      *)
(* between two hundredths is rounded up by toFixed.                        *)
toFixed2(total, count) ==
    LET h == (200 * total + count) \div (2 * count)
    IN DecimalString(h \div 100) \o <<".">>
         \o <<Digits[((h \div 10) % 10) + 1], Digits[(h % 10) + 1]>>

(* line 73                                                                 *)
avgRisk(rs) ==
    IF Len(rs) # 0 THEN toFixed2(totalRisk(rs), Len(rs)) ELSE <<"0", ".", "0", "0">>

(* line 74                                                                 *)
Report(rs) == [avgRisk |-> avgRisk(rs), items |-> rs]

(* variant of Push: the result is put in front (unshift)                   *)
PushFront(rs, r, c) ==
    <<[risk |-> r.risk, reasons |-> r.reasons,
       selector |-> r.selector, target |-> c.to]>> \o rs

(* lines 68-69: r.target = c.to; results.push(r)                           *)
Push(rs, r, c) ==
    Append(rs, [risk |-> r.risk, reasons |-> r.reasons,
                selector |-> r.selector, target |-> c.to])

(* variant of LoopDone: the loop ends one element early                    *)
LoopDoneEarly(p, calls) == p >= Len(calls.items)

(* line 66: the for-of loop has consumed every element                     *)
LoopDone(p, calls) == p > Len(calls.items)

Fail(what) ==
    /\ pc' = "failed"
    /\ err' = what

(* line 61: JSON.parse(fs.readFileSync(abi, 'utf8'))                       *)
ReadAbi ==
    /\ pc = "readAbi"
    /\ IF abiDoc.kind = "unparsable"
       THEN Fail("readAbi") /\ UNCHANGED abiJson
       ELSE /\ abiJson' = abiDoc
            /\ pc' = "buildIndex"
            /\ UNCHANGED err
    /\ UNCHANGED <<hashSupported, abiDoc, callsDoc, selectorIndex, callsJson,
                   results, pos, output>>

(* line 62: buildSelectorIndex(abiJson)                                    *)
BuildIndex ==
    /\ pc = "buildIndex"
    /\ LET b == IF abiJson.kind = "array"
                THEN buildSelectorIndex(abiJson.items, hashSupported)
                ELSE Thrown
       IN IF b.threw
          THEN Fail("buildSelectorIndex") /\ UNCHANGED selectorIndex
          ELSE /\ selectorIndex' = b.idx
               /\ pc' = "readCalls"
               /\ UNCHANGED err
    /\ UNCHANGED <<hashSupported, abiDoc, callsDoc, abiJson, callsJson,
                   results, pos, output>>

(* lines 63-65: JSON.parse(fs.readFileSync(calls, 'utf8')); results = []   *)
ReadCalls ==
    /\ pc = "readCalls"
    /\ IF callsDoc.kind = "unparsable"
       THEN Fail("readCalls") /\ UNCHANGED <<callsJson, results, pos>>
       ELSE /\ callsJson' = callsDoc
            /\ results' = <<>>
            /\ pos' = 1
            /\ pc' = "loop"
            /\ UNCHANGED err
    /\ UNCHANGED <<hashSupported, abiDoc, callsDoc, abiJson, selectorIndex, output>>

(* lines 66-70: one iteration of the loop over callsJson                   *)
AnalyzeNext ==
    /\ pc = "loop"
    /\ IF callsJson.kind # "array"
       THEN Fail("iterate") /\ UNCHANGED <<results, pos>>
       ELSE /\ ~LoopDone(pos, callsJson)
            /\ LET c == callsJson.items[pos]
                   a == analyzeCall(selectorIndex, c)
               IN IF a.threw
                  THEN Fail("analyzeCall") /\ UNCHANGED <<results, pos>>
                  ELSE /\ results' = Push(results, a.res, c)
                       /\ pos' = pos + 1
                       /\ UNCHANGED <<pc, err>>
    /\ UNCHANGED <<hashSupported, abiDoc, callsDoc, abiJson, selectorIndex,
                   callsJson, output>>

(* lines 72-75: the report is printed once the loop is over                *)
Emit ==
    /\ pc = "loop"
    /\ callsJson.kind = "array"
    /\ LoopDone(pos, callsJson)
    /\ output' = Append(output, Report(results))
    /\ pc' = "done"
    /\ UNCHANGED <<hashSupported, abiDoc, callsDoc, abiJson, selectorIndex,
                   callsJson, results, pos, err>>

Next == ReadAbi \/ BuildIndex \/ ReadCalls \/ AnalyzeNext \/ Emit

----------------------------------------------------------------------------
(* The inputs of a run: the two documents and the build's hash support.    *)

MaxAbi == 2      \* longest interface description of BuildInputs
MaxCalls == 3    \* longest call queue of PipelineInputs
MaxWords == 2    \* most words in a function name of RuleInputs

Str(s) == JSStr(s)
Array(items) == [kind |-> "array", items |-> items]
Unparsable == [kind |-> "unparsable", items |-> <<>>]
NotIterable == [kind |-> "object", items |-> <<>>]

Param(type) == [null |-> FALSE, type |-> type]
NullParam == [null |-> TRUE, type |-> JSUndefined]
InputList(items) == [kind |-> "array", items |-> items]
NoInputs == [kind |-> "undefined", items |-> <<>>]
ObjectInputs == [kind |-> "object", items |-> <<>>]

Entry(type, name, inputs, mutability) ==
    [null |-> FALSE, type |-> type, name |-> name, inputs |-> inputs,
     stateMutability |-> mutability]
NullEntry == [null |-> TRUE, type |-> JSUndefined, name |-> JSUndefined,
              inputs |-> NoInputs, stateMutability |-> JSUndefined]

tAddress == Str(<<"a","d","d","r","e","s","s">>)
tUint256 == Str(<<"u","i","n","t","2","5","6">>)
tBytes32 == Str(<<"b","y","t","e","s","3","2">>)
Payable == Str(<<"p","a","y","a","b","l","e">>)
Nonpayable == Str(<<"n","o","n","p","a","y","a","b","l","e">>)
View == Str(<<"v","i","e","w">>)
EventType == Str(<<"e","v","e","n","t">>)

nMint == <<"m","i","n","t">>
nGrantRole == <<"g","r","a","n","t","R","o","l","e">>
nBurn == <<"b","u","r","n">>
nPause == <<"p","a","u","s","e">>
nTransfer == <<"T","r","a","n","s","f","e","r">>

MintEntry == Entry(FunctionType, Str(nMint), InputList(<<Param(tAddress), Param(tUint256)>>), Nonpayable)
GrantRoleEntry == Entry(FunctionType, Str(nGrantRole), InputList(<<Param(tBytes32), Param(tAddress)>>), Payable)
NamelessEntry == Entry(FunctionType, JSUndefined, NoInputs, JSUndefined)

BuildEntries ==
    { MintEntry, GrantRoleEntry, NamelessEntry, NullEntry,
      Entry(FunctionType, Str(nBurn), InputList(<<Param(tUint256)>>), JSUndefined),
      Entry(FunctionType, Str(nPause), NoInputs, View),
      Entry(FunctionType, Str(nPause), InputList(<<>>), Payable),
      Entry(FunctionType, Str(nMint), InputList(<<Param(JSUndefined)>>), Payable),
      Entry(FunctionType, Str(nMint), ObjectInputs, Nonpayable),
      Entry(FunctionType, Str(nMint), InputList(<<Param(tAddress), NullParam>>), Nonpayable),
      Entry(EventType, Str(nTransfer), InputList(<<Param(tAddress), Param(tUint256)>>), JSUndefined),
      Entry(JSUndefined, Str(nMint), InputList(<<Param(tAddress), Param(tUint256)>>), Nonpayable) }

RECURSIVE SeqsUpTo(_, _)
SeqsUpTo(S, n) ==
    IF n = 0 THEN {<<>>}
    ELSE LET shorter == SeqsUpTo(S, n - 1)
         IN shorter \cup {Append(q, x) : q \in shorter, x \in S}

Words ==
    { <<"u","p","g","r","a","d","e">>, <<"P","r","o","x","y">>,
      <<"i","m","p","l","e","m","e","n","t","a","t","i","o","n">>,
      <<"g","r","a","n","t">>, <<"R","e","v","o","k","e">>, <<"R","o","l","e">>,
      <<"\n","R","o","l","e">>, <<"p","a","u","s","e">>, <<"M","i","n","t">>,
      <<"d","e","l","e","g","a","t","e","C","a","l","l">> }

RECURSIVE Concat(_)
Concat(ws) == IF ws = <<>> THEN <<>> ELSE Head(ws) \o Concat(Tail(ws))

Names == {Concat(ws) : ws \in SeqsUpTo(Words, MaxWords)}

addrA == Str(<<"0","x","A">>)
addrB == Str(<<"0","x","B">>)

Call(to, data, value) == [to |-> to, data |-> data, value |-> value]

(* call data: a selector followed by one encoded argument byte             *)
DataFor(sel) == sel \o <<"0","1">>
DataOf(f) == DataFor(SelectorOf(Signature(f)))

AllSelectors == {<<"0","x">> \o slice0(DigestOf(h), 8) : h \in 0..4}

dToString == <<"t","o","S","t","r","i","n","g">>
dValueOf == <<"v","a","l","u","e","O","f">>
dProto == <<"_","_","p","r","o","t","o","_","_">>

Datas ==
    {DataFor(sel) : sel \in AllSelectors}
      \cup { <<>>, <<"0","x">>, <<"0","x","1","2","3">>,
             <<"0","x","Z","Z","Z","Z","Z","Z","Z","Z","0","1">>,
             dToString, dValueOf, dProto }

Values ==
    { JSUndefined, JSNull, JSNum(0), JSNum(1), JSNum(0 - 1), JSBool(TRUE), JSBool(FALSE),
      Str(<<>>), Str(<<"0">>), Str(<<"7">>), Str(<<" ","1","2"," ">>),
      Str(<<"-","3">>), Str(<<"a","b","c">>) }

(* whole runs of main over short queues                                    *)
PipelineCalls ==
    { Call(addrA, DataOf(MintEntry), JSNum(0)),
      Call(addrB, DataOf(MintEntry), JSNum(1)),
      Call(addrB, <<"0","x">>, Str(<<"5">>)),
      Call(addrA, dProto, JSNum(0)) }

PipelineInputs ==
    [abi : {Unparsable, NotIterable, Array(<<>>), Array(<<MintEntry, GrantRoleEntry>>)},
     calls : {Unparsable, NotIterable} \cup {Array(q) : q \in SeqsUpTo(PipelineCalls, MaxCalls)}]

(* interface descriptions of every shape, one call                         *)
BuildInputs ==
    [abi : {Array(q) : q \in SeqsUpTo(BuildEntries, MaxAbi)},
     calls : {Array(<<Call(addrA, DataOf(MintEntry), JSNum(0))>>)}]

(* one function of any name, called                                        *)
RuleInputs ==
    { [abi |-> Array(<<Entry(FunctionType, Str(n), NoInputs, m)>>),
       calls |-> Array(<<Call(addrA, DataOf(Entry(FunctionType, Str(n), NoInputs, m)), v)>>)] :
         n \in Names, m \in {Payable, JSUndefined}, v \in {JSNum(0), JSNum(1)} }

(* one call of any data and value                                          *)
CallInputs ==
    [abi : {Array(<<>>), Array(<<MintEntry, GrantRoleEntry>>), Array(<<NamelessEntry>>)},
     calls : {Array(<<Call(addrA, d, v)>>) : d \in Datas, v \in Values}]

Inputs == PipelineInputs \cup BuildInputs \cup RuleInputs \cup CallInputs

Init ==
    /\ hashSupported \in BOOLEAN
    /\ \E in \in Inputs : abiDoc = in.abi /\ callsDoc = in.calls
    /\ pc = "readAbi"
    /\ abiJson = NoDoc
    /\ selectorIndex = EmptyObject
    /\ callsJson = NoDoc
    /\ results = <<>>
    /\ pos = 1
    /\ err = ""
    /\ output = <<>>

Spec == Init /\ [][Next]_vars

----------------------------------------------------------------------------
(* Vocabulary of the properties.                                           *)

IndexBuilt == pc \in {"readCalls", "loop", "done"}

(* the queued call that results[k] was computed from *)
CallOf(k) == callsJson.items[k]

Analyzed == 1..Len(results)

(* results[k] was resolved through an entry of the built index *)
Resolved(k) == results[k].selector \in DOMAIN selectorIndex

(* the values of the modelled queues that JavaScript coerces to a number   *)
(* greater than 0: 1, true, "7", " 12 ", "5"                               *)
PositiveValues ==
    { JSNum(1), JSBool(TRUE), Str(<<"7">>), Str(<<" ","1","2"," ">>), Str(<<"5">>) }

ValuePenalty(k) == IF CallOf(k).value \in PositiveValues THEN 5 ELSE 0
ValueReason(k) ==
    IF CallOf(k).value \in PositiveValues THEN <<"ETH value attached">> ELSE <<>>

(* C1: a call whose selector is not a key of the built index gets the      *)
(* rule-phase risk 10 and the single rule-phase reason "Unknown selector   *)
(* (not in ABI)", whatever the string data is.                             *)
C1_UnknownSelectorScored ==
    \A k \in Analyzed :
        ~Resolved(k) =>
            /\ results[k].risk = 10 + ValuePenalty(k)
            /\ results[k].reasons = <<"Unknown selector (not in ABI)">> \o ValueReason(k)

(* C2: analyzeCall never raises an error, for any built index and any call *)
(* whose data is a string.                                                 *)
C2_AnalyzeCallTotal == err # "analyzeCall"

(* C3: a value that coerces to a number greater than 0 makes the risk      *)
(* exactly 5 higher than that of the same call with value 0 and appends    *)
(* "ETH value attached" as the last reason, resolved or not; any other     *)
(* value leaves risk and reasons as for value 0, without that reason.      *)
C3_ValueCheck ==
    \A k \in Analyzed :
        LET c == CallOf(k)
            zero == analyzeCall(selectorIndex, [c EXCEPT !.value = JSNum(0)]).res
        IN IF c.value \in PositiveValues
           THEN /\ results[k].risk = zero.risk + 5
                /\ results[k].reasons = Append(zero.reasons, "ETH value attached")
           ELSE /\ results[k].risk = zero.risk
                /\ results[k].reasons = zero.reasons
                /\ \A i \in 1..Len(results[k].reasons) :
                       results[k].reasons[i] # "ETH value attached"

C3_Witness ==
    /\ pc = "done"
    /\ \E k \in Analyzed :
          /\ Resolved(k)
          /\ CallOf(k).value \in PositiveValues
          /\ results[k].reasons[Len(results[k].reasons)] = "ETH value attached"
    /\ \E k \in Analyzed :
          /\ ~Resolved(k)
          /\ CallOf(k).value = Str(<<"5">>)
          /\ results[k].risk = 15

(* the lowercased name of the descriptor results[k] resolved to *)
NameOf(k) == toLowerCase(selectorIndex[results[k].selector].name.s)

(* which rules match the name results[k] resolved to *)
Hits(k) ==
    LET name == NameOf(k)
    IN <<RuleTest(RULES[1], name), RuleTest(RULES[2], name), RuleTest(RULES[3], name),
         RuleTest(RULES[4], name), RuleTest(RULES[5], name)>>

Weight(hit, i, w) == IF hit[i] THEN w ELSE 0
Reason(hit, i, d) == IF hit[i] THEN <<d>> ELSE <<>>
PayablePenalty(k) ==
    IF selectorIndex[results[k].selector].stateMutability = Payable THEN 5 ELSE 0
PayableReason(k) ==
    IF selectorIndex[results[k].selector].stateMutability = Payable
    THEN <<"Payable call">> ELSE <<>>

(* C4: for a resolved call the risk is the sum of the weights of all       *)
(* matching rules (40, 25, 15, 10, 20) plus 5 if payable (plus the value   *)
(* penalty), and the reasons are the matching rules' descriptions in       *)
(* declaration order, then the payability reason (then the value reason);  *)
(* payable grantRole with value 0 has risk 20, nonpayable mint with value  *)
(* 0 has risk 20 and reasons ["Token minting"].                            *)
C4_AllRulesAccumulate ==
    \A k \in Analyzed :
        Resolved(k) =>
            /\ LET hit == Hits(k)
               IN /\ results[k].risk =
                         Weight(hit, 1, 40) + Weight(hit, 2, 25) + Weight(hit, 3, 15)
                           + Weight(hit, 4, 10) + Weight(hit, 5, 20)
                           + PayablePenalty(k) + ValuePenalty(k)
                  /\ results[k].reasons =
                         Reason(hit, 1, "Potential delegatecall use")
                           \o Reason(hit, 2, "Proxy upgrade")
                           \o Reason(hit, 3, "Role change")
                           \o Reason(hit, 4, "Pausing contract")
                           \o Reason(hit, 5, "Token minting")
                           \o PayableReason(k) \o ValueReason(k)
            /\ (/\ CallOf(k).data = DataOf(GrantRoleEntry)
                /\ selectorIndex[results[k].selector] = Descriptor(GrantRoleEntry)
                /\ CallOf(k).value \in {JSNum(0), JSUndefined})
                   => results[k].risk = 20
            /\ (/\ CallOf(k).data = DataOf(MintEntry)
                /\ selectorIndex[results[k].selector] = Descriptor(MintEntry)
                /\ CallOf(k).value = JSNum(0))
                   => results[k].risk = 20 /\ results[k].reasons = <<"Token minting">>

(* a payable function whose name matches two rules *)
C4_Witness ==
    \E k \in Analyzed :
        /\ Resolved(k)
        /\ results[k].reasons = <<"Pausing contract", "Token minting", "Payable call">>
        /\ results[k].risk = 35

(* the name mentions the keyword, in any case *)
Mentions(name, kw) ==
    \E i \in 1..Len(name) :
        i + Len(kw) - 1 <= Len(name) /\ toLowerCase(SubSeq(name, i, i + Len(kw) - 1)) = kw

(* the risk of results[k] apart from what rule i contributes *)
RiskBeside(k, i) ==
    LET hit == Hits(k)
    IN (IF i = 1 THEN 0 ELSE Weight(hit, 1, 40)) + (IF i = 2 THEN 0 ELSE Weight(hit, 2, 25))
         + (IF i = 3 THEN 0 ELSE Weight(hit, 3, 15)) + (IF i = 4 THEN 0 ELSE Weight(hit, 4, 10))
         + (IF i = 5 THEN 0 ELSE Weight(hit, 5, 20)) + PayablePenalty(k) + ValuePenalty(k)

Has(k, reason) == \E i \in 1..Len(results[k].reasons) : results[k].reasons[i] = reason

(* C5 as stated: upgrade-proxy contributes 25 whenever the resolved name   *)
(* mentions "upgrade" and one of "implementation", "proxy"; role-admin     *)
(* contributes 15 whenever it mentions "grant" or "revoke" and "role".     *)
C5_MentionsBothKeywords ==
    \A k \in Analyzed :
        Resolved(k) =>
            /\ (Mentions(NameOf(k), kwUpgrade)
                  /\ (Mentions(NameOf(k), kwImplementation) \/ Mentions(NameOf(k), kwProxy)))
                 => Has(k, "Proxy upgrade") /\ results[k].risk = 25 + RiskBeside(k, 2)
            /\ ((Mentions(NameOf(k), kwGrant) \/ Mentions(NameOf(k), kwRevoke))
                  /\ Mentions(NameOf(k), kwRole))
                 => Has(k, "Role change") /\ results[k].risk = 15 + RiskBeside(k, 3)

(* an occurrence of keyword a ends before an occurrence of keyword b       *)
(* starts, with no line terminator between the two                         *)
FollowedBy(name, a, b) ==
    \E i \in 1..(Len(name) - Len(a) - Len(b) + 1) :
        /\ toLowerCase(SubSeq(name, i, i + Len(a) - 1)) = a
        /\ \E j \in (i + Len(a))..(Len(name) - Len(b) + 1) :
               /\ toLowerCase(SubSeq(name, j, j + Len(b) - 1)) = b
               /\ \A m \in (i + Len(a))..(j - 1) : name[m] \notin {"\n", "\r"}

(* C5 amended: upgrade-proxy contributes 25 whenever "upgrade" is followed *)
(* on the same line by "implementation" or "proxy", and role-admin         *)
(* contributes 15 whenever "grant" or "revoke" is followed on the same     *)
(* line by "role".                                                         *)
C5_KeywordsInOrder ==
    \A k \in Analyzed :
        Resolved(k) =>
            /\ (FollowedBy(NameOf(k), kwUpgrade, kwImplementation)
                  \/ FollowedBy(NameOf(k), kwUpgrade, kwProxy))
                 => Has(k, "Proxy upgrade") /\ results[k].risk = 25 + RiskBeside(k, 2)
            /\ (FollowedBy(NameOf(k), kwGrant, kwRole)
                  \/ FollowedBy(NameOf(k), kwRevoke, kwRole))
                 => Has(k, "Role change") /\ results[k].risk = 15 + RiskBeside(k, 3)

C5_Witness ==
    \E k \in Analyzed :
        /\ Resolved(k)
        /\ FollowedBy(NameOf(k), kwUpgrade, kwProxy)
        /\ Has(k, "Proxy upgrade")
        /\ results[k].risk = 25

(* the positions of the entries of the interface whose type is "function" *)
FunctionPositions ==
    {k \in 1..Len(abiJson.items) : abiJson.items[k].type = Str(<<"f","u","n","c","t","i","o","n">>)}

Deriving(sel) ==
    {k \in FunctionPositions : SelectorOf(Signature(abiJson.items[k])) = sel}

Last(S) == CHOOSE k \in S : \A m \in S : m <= k

(* C6: the index maps each selector to the descriptor of the last function *)
(* entry, in declaration order, whose signature derives it; entries of     *)
(* another type give no key.                                               *)
C6_LastWriteWins ==
    IndexBuilt =>
        /\ DOMAIN selectorIndex =
               {SelectorOf(Signature(abiJson.items[k])) : k \in FunctionPositions}
        /\ \A sel \in DOMAIN selectorIndex :
               LET f == abiJson.items[Last(Deriving(sel))]
               IN /\ selectorIndex[sel].name = f.name
                  /\ selectorIndex[sel].inputs =
                         (IF f.inputs.kind = "undefined" THEN <<>> ELSE f.inputs.items)
                  /\ selectorIndex[sel].stateMutability =
                         (IF f.stateMutability = JSUndefined THEN Nonpayable
                          ELSE f.stateMutability)

(* two function entries with different descriptors derive one selector *)
C6_Witness ==
    /\ IndexBuilt
    /\ \E sel \in DOMAIN selectorIndex :
           \E k1 \in Deriving(sel), k2 \in Deriving(sel) :
               /\ k1 < k2
               /\ abiJson.items[k1].inputs # abiJson.items[k2].inputs
               /\ selectorIndex[sel].inputs = abiJson.items[k2].inputs.items
               /\ selectorIndex[sel].inputs # abiJson.items[k1].inputs.items

(* C7: buildSelectorIndex never aborts on a sequence of interface entries, *)
(* however malformed an entry is (here in a build that has the hash).      *)
C7_BuildTotal ==
    (abiJson.kind = "array" /\ hashSupported) => err # "buildSelectorIndex"

Reported == output # <<>>

(* the analysis of call c in a run whose queue holds c alone *)
Alone(c) ==
    LET r == analyzeCall(buildSelectorIndex(abiDoc.items, TRUE).idx, c).res
    IN [selector |-> r.selector, target |-> c.to, risk |-> r.risk, reasons |-> r.reasons]

(* C8: items[i] is the analysis of the i-th call alone, with that call's   *)
(* to as target; nothing is filtered, duplicated or reordered.             *)
C8_ItemsFollowQueue ==
    Reported =>
        /\ Len(output[1].items) = Len(callsDoc.items)
        /\ \A i \in 1..Len(callsDoc.items) : output[1].items[i] = Alone(callsDoc.items[i])

C8_Witness ==
    /\ Reported
    /\ Len(output[1].items) = 3
    /\ output[1].items[1].target # output[1].items[2].target
    /\ output[1].items[1].risk < output[1].items[2].risk
    /\ output[1].items[3].risk < output[1].items[1].risk

IsDigit(c) == c \in {"0","1","2","3","4","5","6","7","8","9"}

(* a decimal numeral with exactly two fraction digits *)
TwoFractionDigits(s) ==
    /\ Len(s) >= 4
    /\ s[Len(s) - 2] = "."
    /\ \A i \in (1..Len(s)) \ {Len(s) - 2} : IsDigit(s[i])
    /\ Len(s) > 4 => s[1] # "0"

(* its value in hundredths *)
Hundredths(s) ==
    100 * DecimalValue(SubSeq(s, 1, Len(s) - 3)) + DecimalValue(SubSeq(s, Len(s) - 1, Len(s)))

RECURSIVE SumOfRisks(_, _)
SumOfRisks(items, n) == IF n = 0 THEN 0 ELSE SumOfRisks(items, n - 1) + items[n].risk

Distance(a, b) == IF a < b THEN b - a ELSE a - b

(* C9: avgRisk has exactly two fraction digits and is the hundredth        *)
(* nearest to the mean of the items' risks; it is "0.00" with empty items  *)
(* for an empty queue and the risk followed by ".00" for a single call.    *)
C9_AvgRisk ==
    Reported =>
        LET items == output[1].items
            avg == output[1].avgRisk
            n == Len(items)
        IN /\ TwoFractionDigits(avg)
           /\ 2 * Distance(Hundredths(avg) * n, 100 * SumOfRisks(items, n)) <= n
           /\ callsDoc.items = <<>> => avg = <<"0", ".", "0", "0">> /\ items = <<>>
           /\ n = 1 => Hundredths(avg) = 100 * items[1].risk

(* three calls whose mean 55/3 is not a multiple of a hundredth *)
C9_Witness ==
    /\ Reported
    /\ Len(output[1].items) = 3
    /\ SumOfRisks(output[1].items, 3) = 55
    /\ output[1].avgRisk = <<"1", "8", ".", "3", "3">>

(* C10: the report is printed at most once, only after both documents were *)
(* parsed and every queued call was analyzed; a run that failed has        *)
(* printed nothing.                                                        *)
C10_NoPartialReport ==
    /\ Len(output) <= 1
    /\ Reported =>
          /\ pc = "done"
          /\ err = ""
          /\ abiJson = abiDoc /\ abiDoc.kind = "array"
          /\ callsJson = callsDoc /\ callsDoc.kind = "array"
          /\ Len(results) = Len(callsDoc.items)
          /\ output[1].items = results
    /\ (pc = "failed" \/ err # "") => output = <<>>
    /\ pc # "done" => output = <<>>

C10_Witness ==
    /\ Reported
    /\ pc = "done"
    /\ Len(output[1].items) = 2

====
